---- MODULE Spec2Model ----
(***************************************************************************)
(* A model of backend/server.js: one express process whose handlers read   *)
(* and write three MongoDB collections (users, schedules, timeoffs)        *)
(* through Mongoose, with JWT authentication and inline validation.        *)
(*                                                                         *)
(* JavaScript values are records [k |-> kind, v |-> payload].  Strings     *)
(* whose characters the code inspects (times, dates) are sequences of      *)
(* one-character strings; strings the code only compares (type, username,  *)
(* email, password, description) are atoms.                                *)
(***************************************************************************)
EXTENDS Integers, Sequences, FiniteSets, TLC

(***************************************************************************)
(* JavaScript values                                                       *)
(***************************************************************************)
Undef == [k |-> "undefined", v |-> <<>>]
Null == [k |-> "null", v |-> <<>>]
\* an object literal such as {}
Obj == [k |-> "object", v |-> <<>>]
Str(s) == [k |-> "string", v |-> s]
Num(n) == [k |-> "number", v |-> n]

\* !x for a value that is undefined, a number or a character-sequence string
Falsy(x) ==
  \/ x.k = "undefined"
  \/ x.k = "null"
  \/ (x.k = "number" /\ x.v = 0)
  \/ (x.k = "string" /\ Len(x.v) = 0)

\* !x for a value that is undefined, a number or an atom string
FalsyAtom(x) ==
  \/ x.k = "undefined"
  \/ x.k = "null"
  \/ (x.k = "number" /\ x.v = 0)
  \/ (x.k = "string" /\ x.v = "")

Digits == <<"0", "1", "2", "3", "4", "5", "6", "7", "8", "9">>
IsDigit(c) == c \in {"0", "1", "2", "3", "4", "5", "6", "7", "8", "9"}
DigitVal(c) ==
  CASE c = "0" -> 0 [] c = "1" -> 1 [] c = "2" -> 2 [] c = "3" -> 3 [] c = "4" -> 4
    [] c = "5" -> 5 [] c = "6" -> 6 [] c = "7" -> 7 [] c = "8" -> 8 [] c = "9" -> 9
\* the white-space class of String.prototype.trim and of StringToNumber
IsSpace(c) == c = " "

RECURSIVE TrimLeft(_)
TrimLeft(s) == IF s # <<>> /\ IsSpace(Head(s)) THEN TrimLeft(Tail(s)) ELSE s
RECURSIVE TrimRight(_)
TrimRight(s) ==
  IF s # <<>> /\ IsSpace(s[Len(s)]) THEN TrimRight(SubSeq(s, 1, Len(s) - 1)) ELSE s
\* String.prototype.trim
Trim(s) == TrimRight(TrimLeft(s))

\* String.prototype.split('-'): the segments between the dashes
RECURSIVE SplitDash(_, _, _)
SplitDash(s, cur, acc) ==
  IF s = <<>> THEN Append(acc, cur)
  ELSE IF Head(s) = "-" THEN SplitDash(Tail(s), <<>>, Append(acc, cur))
  ELSE SplitDash(Tail(s), Append(cur, Head(s)), acc)

NaN == -1
RECURSIVE DigitsValue(_, _)
DigitsValue(s, acc) ==
  IF s = <<>> THEN acc ELSE DigitsValue(Tail(s), acc * 10 + DigitVal(Head(s)))
\* Number(segment): white space is stripped, "" is 0, decimal digits are their
\* value, anything else is NaN
ToNumber(s) ==
  LET t == Trim(s) IN
  IF \A i \in 1..Len(t) : IsDigit(t[i]) THEN DigitsValue(t, 0) ELSE NaN

(***************************************************************************)
(* Calendar arithmetic of the JavaScript Date object (proleptic Gregorian) *)
(***************************************************************************)
IsLeap(y) == (y % 4 = 0 /\ y % 100 # 0) \/ y % 400 = 0
DaysInMonth(y, m) ==
  IF m = 2 THEN (IF IsLeap(y) THEN 29 ELSE 28)
  ELSE IF m \in {4, 6, 9, 11} THEN 30 ELSE 31
RECURSIVE DaysBeforeMonth(_, _)
DaysBeforeMonth(y, m) ==
  IF m <= 1 THEN 0 ELSE DaysInMonth(y, m - 1) + DaysBeforeMonth(y, m - 1)
\* days from 0000-01-01 to the first of January of year y (y >= 0)
DaysBeforeYear(y) ==
  IF y = 0 THEN 0
  ELSE 365 * y + ((y - 1) \div 4) - ((y - 1) \div 100) + ((y - 1) \div 400) + 1
\* MakeDay: the day number of (year, month index, day of month); the month
\* index and the day may lie outside their ranges and carry over
MakeDay(y, m0, d) ==
  LET yy == y + (m0 \div 12)
      mm == (m0 % 12) + 1
  IN DaysBeforeYear(yy) + DaysBeforeMonth(yy, mm) + (d - 1)
RECURSIVE YearOfDay(_, _)
YearOfDay(n, y) == IF DaysBeforeYear(y + 1) > n THEN y ELSE YearOfDay(n, y + 1)
RECURSIVE MonthOfDay(_, _, _)
MonthOfDay(n, y, m) ==
  IF m = 12 \/ DaysBeforeYear(y) + DaysBeforeMonth(y, m + 1) > n THEN m
  ELSE MonthOfDay(n, y, m + 1)
\* getFullYear / getMonth+1 / getDate of a day number
CivilOfDay(n) ==
  LET y == YearOfDay(n, n \div 366)
      m == MonthOfDay(n, y, 1)
  IN [year |-> y, month |-> m, day |-> n - DaysBeforeYear(y) - DaysBeforeMonth(y, m) + 1]
\* new Date(year, monthIndex, day): a year of 0..99 means 1900 + year
NewDateYMD(y, m0, d) ==
  LET full == IF y >= 0 /\ y <= 99 THEN 1900 + y ELSE y IN
  CivilOfDay(MakeDay(full, m0, d))

(***************************************************************************)
(* Validation middleware                                                   *)
(***************************************************************************)
\* /^([01]\d|2[0-3]):([0-5]\d)$/
timeRegex(s) ==
  /\ Len(s) = 5
  /\ \/ (s[1] \in {"0", "1"} /\ IsDigit(s[2]))
     \/ (s[1] = "2" /\ s[2] \in {"0", "1", "2", "3"})
  /\ s[3] = ":"
  /\ s[4] \in {"0", "1", "2", "3", "4", "5"}
  /\ IsDigit(s[5])

validateTimeFormat(time) ==
  IF Falsy(time) \/ time.k # "string" THEN FALSE
  ELSE timeRegex(Trim(time.v))

\* /^\d{4}-\d{2}-\d{2}$/
dateRegex(s) ==
  /\ Len(s) = 10
  /\ \A i \in {1, 2, 3, 4, 6, 7, 9, 10} : IsDigit(s[i])
  /\ s[5] = "-"
  /\ s[8] = "-"

validateDateFormat(date) ==
  IF Falsy(date) \/ date.k # "string" THEN FALSE
  ELSE IF ~dateRegex(Trim(date.v)) THEN FALSE
  ELSE
    LET parts == SplitDash(date.v, <<>>, <<>>)
        year == ToNumber(parts[1])
        month == ToNumber(parts[2])
        day == ToNumber(parts[3])
        parsedDate == NewDateYMD(year, month - 1, day)
    IN /\ parsedDate.year = year
       /\ parsedDate.month - 1 = month - 1
       /\ parsedDate.day = day


(***************************************************************************)
(* Credential codec (bcryptjs) and session tokens (jsonwebtoken)           *)
(***************************************************************************)
\* bcrypt.hash(password, salt): a one-way value of the password and the salt
\* (passwords here are far shorter than bcrypt's input limit)
bcryptHash(password, salt) == [alg |-> "bcrypt", salt |-> salt, of |-> password.v]
\* bcrypt.compare(password, hash): re-hash with the salt kept in the hash
bcryptCompare(password, hash) == bcryptHash(password, hash.salt) = hash
\* bcrypt.hash and bcrypt.compare reject ("Illegal arguments") a non-string
bcryptThrows(password) == password.k # "string"

JWT_SECRET == "JWT_SECRET"
\* expiresIn: '24h', in hours
TokenTTL == 24
\* jwt.sign({ userId }, JWT_SECRET, { expiresIn: '24h' }) at time t
jwtSign(userId, secret, t) ==
  [kind |-> "jwt", userId |-> userId, exp |-> t + TokenTTL, key |-> secret]
\* (a variant that does not look at the expiry)
IgnoreExpiry(token, secret, t) ==
  /\ token.kind = "jwt"
  /\ token.key = secret
\* jwt.verify(token, JWT_SECRET) at time t succeeds (and yields the payload)
\* iff the token parses, its signature is the secret's and t is before exp
jwtVerifies(token, secret, t) ==
  /\ token.kind = "jwt"
  /\ token.key = secret
  /\ t < token.exp

(***************************************************************************)
(* State.  A handler is an operator from the request and the current state *)
(* to its response and the collections it leaves; the action of the same   *)
(* name (capitalised) applies it.  A response is what res.status().json()  *)
(* sends, with the number of store operations issued before it (dbOps).    *)
(***************************************************************************)
VARIABLES
  env,        \* the deployment: the process's time zone and Mongoose's
              \* treatment of undefined keys in an update
  users,      \* the users collection, in insertion order
  schedules,  \* the schedules collection, in insertion order
  timeoffs,   \* the timeoffs collection, in insertion order
  nextId,     \* _id given to the next TimeOff document (ids are never reused)
  tokens,     \* the tokens the clients hold (issued by register or login)
  now,        \* the clock, in hours
  reqs        \* the requests suspended at an await, oldest first

vars == <<env, users, schedules, timeoffs, nextId, tokens, now, reqs>>

Days == <<"Sunday", "Monday", "Tuesday", "Wednesday", "Thursday", "Friday", "Saturday">>
DayNames == {Days[i] : i \in 1..7}

T0900 == <<"0", "9", ":", "0", "0">>
T1730 == <<"1", "7", ":", "3", "0">>
DefaultSlot == [startTime |-> Str(T0900), endTime |-> Str(T1730)]
\* new Schedule({ userId, Sunday: {...}, ..., Saturday: {...} })
defaultSchedule(userId) ==
  [userId |-> userId, days |-> [d \in DayNames |-> DefaultSlot]]

\* res.status(status).json({ message, ... })
Respond(status, message, caller, body, dbOps) ==
  [status |-> status, message |-> message, caller |-> caller, body |-> body,
   dbOps |-> dbOps]
\* no response yet: the handler is suspended at an await
Pending == Respond(0, "", 0, Null, 0)

RemoveAt(s, i) == SubSeq(s, 1, i - 1) \o SubSeq(s, i + 1, Len(s))
\* the positions of the documents of a collection that match a filter
Matching(coll, F(_)) == {i \in 1..Len(coll) : F(coll[i])}
\* findOne: the first match in natural (insertion) order, 0 when none
First(S) == IF S = {} THEN 0 ELSE CHOOSE i \in S : \A j \in S : i <= j
Doc(coll, i) == [id |-> i, doc |-> coll[i]]

\* the offsets (hours east of UTC) of the zones the process may run in
TZOffsets == {-5, 0, 3}
Deployments == [tz : TZOffsets, omitUndefined : BOOLEAN]
\* an empty database, in a process running in UTC with a current Mongoose
Init ==
  /\ env = [tz |-> 0, omitUndefined |-> TRUE]
  /\ users = <<>>
  /\ schedules = <<>>
  /\ timeoffs = <<>>
  /\ nextId = 1
  /\ tokens = {}
  /\ now = 0
  /\ reqs = <<>>

\* an empty database, in any deployment
InitAnyDeployment ==
  /\ env \in Deployments
  /\ users = <<>>
  /\ schedules = <<>>
  /\ timeoffs = <<>>
  /\ nextId = 1
  /\ tokens = {}
  /\ now = 0
  /\ reqs = <<>>

(***************************************************************************)
(* Auth middleware                                                         *)
(***************************************************************************)
EmptyToken == [kind |-> "empty", userId |-> 0, exp |-> 0, key |-> ""]
NoHeader == [present |-> FALSE, token |-> EmptyToken]
Bearer(token) == [present |-> TRUE, token |-> token]
\* authenticate: decoded.userId when next() is called, 0 when the request is
\* answered 401
authenticate(header) ==
  IF ~header.present \/ header.token.kind = "empty" THEN 0
  ELSE IF jwtVerifies(header.token, JWT_SECRET, now) THEN header.token.userId
  ELSE 0
unauthorized(header) ==
  Respond(401,
          IF ~header.present \/ header.token.kind = "empty"
            THEN "Authentication required" ELSE "Invalid or expired token",
          0, Null, 0)

\* the clients keep at most MaxTokens tokens
MaxTokens == 2
Keep(token) ==
  IF Cardinality(tokens \cup {token}) <= MaxTokens THEN tokens \cup {token} ELSE tokens

(***************************************************************************)
(* POST /api/auth/register: the existence read, then (after the hash) the  *)
(* user write, then the schedule write; other requests run between them    *)
(***************************************************************************)
MaxUsers == 3
\* User.findOne({ $or: [{ email }, { username }] })
existingUser(username, email) ==
  First(Matching(users, LAMBDA u : u.email = email.v \/ u.username = username.v))
\* (a variant without the unique indexes)
NoUniqueIndex(username, email) == FALSE
\* the unique indexes of userSchema (username, email) refuse the insert
uniqueIndexRejects(username, email) ==
  \E i \in 1..Len(users) : users[i].username = username.v \/ users[i].email = email.v

Request(op, pc, username, email, password, userId) ==
  [op |-> op, pc |-> pc, username |-> username, email |-> email,
   password |-> password, userId |-> userId]

\* up to the first await that touches the store and its answer
registerCheck(username, email, password) ==
  IF FalsyAtom(username) \/ FalsyAtom(email) \/ FalsyAtom(password)
    THEN [resp |-> Respond(400, "All fields are required", 0, Null, 0), reqs |-> reqs]
  ELSE IF existingUser(username, email) # 0
    THEN [resp |-> Respond(400, "User already exists", 0, Null, 1), reqs |-> reqs]
  ELSE [resp |-> Pending,
        reqs |-> Append(reqs, Request("register", "saveUser", username, email, password, 0))]

RegisterCheck(cap, username, email, password) ==
  /\ Len(reqs) < cap
  /\ reqs' = registerCheck(username, email, password).reqs
  /\ UNCHANGED <<env, users, schedules, timeoffs, nextId, tokens, now>>

\* bcrypt.genSalt / bcrypt.hash, then user.save()
registerSaveUser(i, salt) ==
  LET r == reqs[i] IN
  IF bcryptThrows(r.password)
    THEN [resp |-> Respond(500, "Server error", 0, Null, 1), users |-> users,
          reqs |-> RemoveAt(reqs, i)]
  ELSE IF uniqueIndexRejects(r.username, r.email)
    THEN [resp |-> Respond(500, "Server error", 0, Null, 2), users |-> users,
          reqs |-> RemoveAt(reqs, i)]
  ELSE [resp |-> Pending,
        users |-> Append(users, [username |-> r.username.v, email |-> r.email.v,
                                 password |-> bcryptHash(r.password, salt)]),
        reqs |-> [reqs EXCEPT ![i].pc = "saveSchedule", ![i].userId = Len(users) + 1]]

RegisterSaveUser(i, salt) ==
  /\ reqs[i].op = "register"
  /\ reqs[i].pc = "saveUser"
  /\ LET out == registerSaveUser(i, salt) IN
       /\ Len(out.users) <= MaxUsers
       /\ users' = out.users
       /\ reqs' = out.reqs
  /\ UNCHANGED <<env, schedules, timeoffs, nextId, tokens, now>>

\* defaultSchedule.save(), which the store performs (ok) or fails, then the
\* token and the 201
\* (a variant that deletes the user again when the schedule write fails)
RollBackUser(i, ok) ==
  LET r == reqs[i]
      token == jwtSign(r.userId, JWT_SECRET, now)
  IN IF ok
     THEN [resp |-> Respond(201, "User registered successfully", r.userId, token, 3),
           users |-> users,
           schedules |-> Append(schedules, defaultSchedule(r.userId)),
           tokens |-> Keep(token)]
     ELSE [resp |-> Respond(500, "Server error", 0, Null, 4),
           users |-> RemoveAt(users, r.userId), schedules |-> schedules, tokens |-> tokens]
registerSaveSchedule(i, ok) ==
  LET r == reqs[i]
      token == jwtSign(r.userId, JWT_SECRET, now)
  IN IF ok
     THEN [resp |-> Respond(201, "User registered successfully", r.userId, token, 3),
           users |-> users,
           schedules |-> Append(schedules, defaultSchedule(r.userId)),
           tokens |-> Keep(token)]
     ELSE [resp |-> Respond(500, "Server error", 0, Null, 3),
           users |-> users, schedules |-> schedules, tokens |-> tokens]

RegisterSaveSchedule(i, ok) ==
  /\ reqs[i].op = "register"
  /\ reqs[i].pc = "saveSchedule"
  /\ LET out == registerSaveSchedule(i, ok) IN
       /\ users' = out.users
       /\ schedules' = out.schedules
       /\ tokens' = out.tokens
  /\ reqs' = RemoveAt(reqs, i)
  /\ UNCHANGED <<env, timeoffs, nextId, now>>

(***************************************************************************)
(* POST /api/auth/login                                                    *)
(***************************************************************************)
login(username, password) ==
  LET u == First(Matching(users, LAMBDA x : x.username = username.v))
      token == jwtSign(u, JWT_SECRET, now)
  IN IF FalsyAtom(username) \/ FalsyAtom(password)
       THEN [resp |-> Respond(400, "All fields are required", 0, Null, 0), tokens |-> tokens]
     ELSE IF u = 0
       THEN [resp |-> Respond(400, "Invalid credentials", 0, Null, 1), tokens |-> tokens]
     ELSE IF bcryptThrows(password)
       THEN [resp |-> Respond(500, "Server error", 0, Null, 1), tokens |-> tokens]
     ELSE IF ~bcryptCompare(password, users[u].password)
       THEN [resp |-> Respond(400, "Invalid credentials", 0, Null, 1), tokens |-> tokens]
     ELSE [resp |-> Respond(200, "Login successful", u, token, 1), tokens |-> Keep(token)]

Login(username, password) ==
  /\ tokens' = login(username, password).tokens
  /\ UNCHANGED <<env, users, schedules, timeoffs, nextId, now, reqs>>

\* time passes
TickHours == 12
MaxTime == 36
Tick ==
  /\ now + TickHours <= MaxTime
  /\ now' = now + TickHours
  /\ UNCHANGED <<env, users, schedules, timeoffs, nextId, tokens, reqs>>


(***************************************************************************)
(* GET /api/schedule: the read, then (when nothing was found) the write    *)
(***************************************************************************)
MaxSchedules == 3
\* Schedule.findOne({ userId }) / the filter of findOneAndUpdate
scheduleOf(userId) == First(Matching(schedules, LAMBDA d : d.userId = userId))

\* (a variant that creates the default without looking for a schedule)
AlwaysCreate(header) ==
  LET caller == authenticate(header) IN
  IF caller = 0 THEN [resp |-> unauthorized(header), reqs |-> reqs]
  ELSE [resp |-> Pending,
        reqs |-> Append(reqs, Request("getSchedule", "save", Undef, Undef, Undef, caller))]
getScheduleRead(header) ==
  LET caller == authenticate(header)
      found == scheduleOf(caller)
  IN IF caller = 0 THEN [resp |-> unauthorized(header), reqs |-> reqs]
     ELSE IF found # 0
       THEN [resp |-> Respond(200, "", caller, Doc(schedules, found), 1), reqs |-> reqs]
     ELSE [resp |-> Pending,
           reqs |-> Append(reqs, Request("getSchedule", "save", Undef, Undef, Undef, caller))]

GetScheduleRead(cap, header) ==
  /\ Len(reqs) < cap
  /\ reqs' = getScheduleRead(header).reqs
  /\ UNCHANGED <<env, users, schedules, timeoffs, nextId, tokens, now>>

\* (a variant that saves only when the user still has no schedule)
SaveIfAbsent(i) ==
  LET created == IF scheduleOf(reqs[i].userId) = 0
                 THEN Append(schedules, defaultSchedule(reqs[i].userId)) ELSE schedules
      found == First(Matching(created, LAMBDA d : d.userId = reqs[i].userId))
  IN [resp |-> Respond(200, "", reqs[i].userId, Doc(created, found), 2),
      schedules |-> created]
\* defaultSchedule.save(); res.json(defaultSchedule)
getScheduleSave(i) ==
  LET created == Append(schedules, defaultSchedule(reqs[i].userId)) IN
  [resp |-> Respond(200, "", reqs[i].userId, Doc(created, Len(created)), 2),
   schedules |-> created]

GetScheduleSave(i) ==
  /\ reqs[i].op = "getSchedule"
  /\ reqs[i].pc = "save"
  /\ Len(schedules) < MaxSchedules
  /\ schedules' = getScheduleSave(i).schedules
  /\ reqs' = RemoveAt(reqs, i)
  /\ UNCHANGED <<env, users, timeoffs, nextId, tokens, now>>

(***************************************************************************)
(* PUT /api/schedule.  A body is [days |-> [day |-> slot or Undef],        *)
(* userId |-> a user id or 0 (no such key)]; a slot is                     *)
(* [startTime |-> value, endTime |-> value], Undef for a missing key.      *)
(* Keys the schema does not know are dropped by Mongoose and not modelled. *)
(***************************************************************************)
\* the validation loop: the message of the first failure, "" when none
RECURSIVE scheduleError(_, _)
scheduleError(body, i) ==
  IF i > 7 THEN ""
  ELSE LET slot == body.days[Days[i]] IN
    IF slot = Undef THEN scheduleError(body, i + 1)
    ELSE IF ~Falsy(slot.startTime) /\ ~validateTimeFormat(slot.startTime)
      THEN "Invalid start time format for " \o Days[i]
    ELSE IF ~Falsy(slot.endTime) /\ ~validateTimeFormat(slot.endTime)
      THEN "Invalid end time format for " \o Days[i]
    ELSE scheduleError(body, i + 1)

\* Mongoose casts a value set on a String path: a number becomes its decimal
\* digits (the numbers of the model have one digit)
castString(x) == IF x.k = "number" THEN Str(<<Digits[x.v + 1]>>) ELSE x
castSlot(slot) ==
  [startTime |-> castString(slot.startTime), endTime |-> castString(slot.endTime)]
\* runValidators: the validators of the paths the update names; `required`
\* refuses the empty string.  Paths the update does not name are not checked.
updateValidatorsReject(body) ==
  \E d \in DayNames :
    /\ body.days[d] # Undef
    /\ \/ castSlot(body.days[d]).startTime = Str(<<>>)
       \/ castSlot(body.days[d]).endTime = Str(<<>>)
\* { $set: updatedSchedule }: each day named replaces that day's whole
\* sub-document, and a userId key replaces the owner
applySet(doc, body) ==
  [userId |-> IF body.userId # 0 THEN body.userId ELSE doc.userId,
   days |-> [d \in DayNames |->
               IF body.days[d] # Undef THEN castSlot(body.days[d]) ELSE doc.days[d]]]

updateSchedule(header, body) ==
  LET caller == authenticate(header)
      found == scheduleOf(caller)
      err == scheduleError(body, 1)
      updated == [schedules EXCEPT ![found] = applySet(@, body)]
  IN IF caller = 0 THEN [resp |-> unauthorized(header), schedules |-> schedules]
     ELSE IF err # ""
       THEN [resp |-> Respond(400, err, caller, Null, 0), schedules |-> schedules]
     ELSE IF updateValidatorsReject(body)
       THEN [resp |-> Respond(500, "Server error", caller, Null, 0), schedules |-> schedules]
     ELSE IF found = 0
       THEN [resp |-> Respond(404, "Schedule not found", caller, Null, 1),
             schedules |-> schedules]
     ELSE [resp |-> Respond(200, "Schedule updated successfully", caller,
                            Doc(updated, found), 1),
           schedules |-> updated]

UpdateSchedule(header, body) ==
  /\ schedules' = updateSchedule(header, body).schedules
  /\ UNCHANGED <<env, users, timeoffs, nextId, tokens, now, reqs>>

(***************************************************************************)
(* Time-off routes.  A body is [type, startDate, endDate, description],    *)
(* each a JavaScript value (Undef for a missing key).                      *)
(***************************************************************************)
MaxTimeOffs == 2
TimeOffTypes == {"vacation", "dayOff", "sickLeave", "other"}

\* the dates of the model's requests: two real dates, one of them also with
\* a leading blank, and a 30th of February
D0505 == <<"2", "0", "2", "4", "-", "0", "5", "-", "0", "5">>
D0510 == <<"2", "0", "2", "4", "-", "0", "5", "-", "1", "0">>
D0230 == <<"2", "0", "2", "4", "-", "0", "2", "-", "3", "0">>
Padded(s) == <<" ">> \o s
DateInputs == {Str(D0505), Str(D0510), Str(Padded(D0505)), Str(D0230)}
\* validateDateFormat on those dates, computed once
DateFormatTable == [d \in DateInputs |-> validateDateFormat(d)]
isValidDate(date) ==
  IF date \in DateInputs THEN DateFormatTable[date] ELSE validateDateFormat(date)

\* new Date(string), in hours since 0000-01-01T00:00Z, of a string that passed
\* validateDateFormat: exactly YYYY-MM-DD is the ISO date-only form, midnight
\* UTC; with white space around it the engine's fallback parser reads the same
\* numbers as a local date, midnight in the process's zone
newDate(s) ==
  LET parts == SplitDash(s.v, <<>>, <<>>)
      day == MakeDay(ToNumber(parts[1]), ToNumber(parts[2]) - 1, ToNumber(parts[3]))
  IN IF dateRegex(s.v) THEN day * 24 ELSE day * 24 - env.tz

finalEndDate(body) ==
  IF body.type = Str("dayOff") THEN body.startDate ELSE body.endDate

\* the validation of POST and PUT /api/timeoff: the message of the first
\* failure, "" when none
timeOffError(body) ==
  IF FalsyAtom(body.type) \/ Falsy(body.startDate)
    THEN "Type and start date are required"
  ELSE IF ~isValidDate(body.startDate)
    THEN "Invalid start date format. Use YYYY-MM-DD"
  ELSE IF body.type = Str("dayOff") THEN ""
  ELSE IF Falsy(body.endDate) THEN "End date is required for vacation"
  ELSE IF ~isValidDate(body.endDate)
    THEN "Invalid end date format. Use YYYY-MM-DD"
  ELSE IF newDate(body.startDate) > newDate(body.endDate)
    THEN "End date must be after start date"
  ELSE ""

\* timeOffSchema's enum on type, run by save() and by runValidators
enumRejects(type) == type.k # "string" \/ type.v \notin TimeOffTypes
\* description: String refuses a value that has no string form (an object)
castRejects(description) == description.k = "object"
\* what Mongoose refuses before anything is sent to the store
schemaRejects(body) == enumRejects(body.type) \/ castRejects(body.description)

\* (a variant that filters by { _id: id } alone)
AnyOwner(id, userId) == First(Matching(timeoffs, LAMBDA d : d.id = id))
\* the filter { _id: id, userId: req.user.id }
timeOffOf(id, userId) ==
  First(Matching(timeoffs, LAMBDA d : d.id = id /\ d.userId = userId))

\* TimeOff.find({ userId }).sort({ createdAt: -1 }): newest first
RECURSIVE sortNewestFirst(_)
sortNewestFirst(S) ==
  IF S = {} THEN <<>>
  ELSE LET top == CHOOSE i \in S : \A j \in S :
                    \/ timeoffs[i].createdAt > timeoffs[j].createdAt
                    \/ (timeoffs[i].createdAt = timeoffs[j].createdAt /\ i <= j)
       IN <<timeoffs[top]>> \o sortNewestFirst(S \ {top})

listTimeOff(header) ==
  LET caller == authenticate(header) IN
  IF caller = 0 THEN [resp |-> unauthorized(header)]
  ELSE [resp |-> Respond(200, "", caller,
                         sortNewestFirst(Matching(timeoffs, LAMBDA d : d.userId = caller)), 1)]

\* a read: no variable changes
ListTimeOff(header) ==
  /\ listTimeOff(header).resp.status \in {200, 401}
  /\ UNCHANGED vars

createTimeOff(header, body) ==
  LET caller == authenticate(header)
      err == timeOffError(body)
      timeOff == [id |-> nextId, userId |-> caller, type |-> body.type.v,
                  startDate |-> body.startDate, endDate |-> finalEndDate(body),
                  description |-> body.description, status |-> "pending",
                  createdAt |-> now]
  IN IF caller = 0 THEN [resp |-> unauthorized(header), timeoffs |-> timeoffs]
     ELSE IF err # ""
       THEN [resp |-> Respond(400, err, caller, Null, 0), timeoffs |-> timeoffs]
     ELSE IF schemaRejects(body)
       THEN [resp |-> Respond(500, "Server error", caller, Null, 0), timeoffs |-> timeoffs]
     ELSE [resp |-> Respond(201, "Time off request created successfully", caller, timeOff, 1),
           timeoffs |-> Append(timeoffs, timeOff)]

CreateTimeOff(header, body) ==
  /\ LET out == createTimeOff(header, body) IN
       /\ out.resp.status = 201 => nextId <= MaxTimeOffs
       /\ timeoffs' = out.timeoffs
       /\ nextId' = IF out.resp.status = 201 THEN nextId + 1 ELSE nextId
  /\ UNCHANGED <<env, users, schedules, tokens, now, reqs>>

\* the update { type, startDate, endDate: finalEndDate, description }; a
\* description of undefined is left out of the update or sent as null,
\* depending on the Mongoose version (env.omitUndefined)
updateTimeOff(header, id, body) ==
  LET caller == authenticate(header)
      err == timeOffError(body)
      found == timeOffOf(id, caller)
      updated == [timeoffs[found] EXCEPT
                    !.type = body.type.v,
                    !.startDate = body.startDate,
                    !.endDate = finalEndDate(body),
                    !.description = IF body.description # Undef THEN body.description
                                    ELSE IF env.omitUndefined THEN @ ELSE Null]
  IN IF caller = 0 THEN [resp |-> unauthorized(header), timeoffs |-> timeoffs]
     ELSE IF err # ""
       THEN [resp |-> Respond(400, err, caller, Null, 0), timeoffs |-> timeoffs]
     ELSE IF schemaRejects(body)
       THEN [resp |-> Respond(500, "Server error", caller, Null, 0), timeoffs |-> timeoffs]
     ELSE IF found = 0
       THEN [resp |-> Respond(404, "Time off request not found", caller, Null, 1),
             timeoffs |-> timeoffs]
     ELSE [resp |-> Respond(200, "Time off request updated successfully", caller, updated, 1),
           timeoffs |-> [timeoffs EXCEPT ![found] = updated]]

UpdateTimeOff(header, id, body) ==
  /\ timeoffs' = updateTimeOff(header, id, body).timeoffs
  /\ UNCHANGED <<env, users, schedules, nextId, tokens, now, reqs>>

deleteTimeOff(header, id) ==
  LET caller == authenticate(header)
      found == timeOffOf(id, caller)
  IN IF caller = 0 THEN [resp |-> unauthorized(header), timeoffs |-> timeoffs]
     ELSE IF found = 0
       THEN [resp |-> Respond(404, "Time off request not found", caller, Null, 1),
             timeoffs |-> timeoffs]
     ELSE [resp |-> Respond(200, "Time off request deleted successfully", caller, Null, 1),
           timeoffs |-> RemoveAt(timeoffs, found)]

DeleteTimeOff(header, id) ==
  /\ timeoffs' = deleteTimeOff(header, id).timeoffs
  /\ UNCHANGED <<env, users, schedules, nextId, tokens, now, reqs>>

(***************************************************************************)
(* Inputs                                                                  *)
(***************************************************************************)
Alice == Str("alice")
Bob == Str("bob")
AliceMail == Str("alice@example.org")
BobMail == Str("bob@example.org")
Pw1 == Str("pw1")
Pw2 == Str("pw2")
PwNumber == Num(123)
Salts == {"salt"}

\* the Authorization headers a client can send: none, "Bearer " with nothing
\* after it, a string that is no token, a held token, and a held token
\* re-signed with another key
Malformed == [kind |-> "malformed", userId |-> 0, exp |-> 0, key |-> ""]
HeldHeaders == {Bearer(t) : t \in tokens}
ForgedHeaders == {Bearer([t EXCEPT !.key = "other key"]) : t \in tokens}
AllHeaders ==
  HeldHeaders \cup ForgedHeaders \cup {NoHeader, Bearer(EmptyToken), Bearer(Malformed)}

T1000 == <<"1", "0", ":", "0", "0">>
T1800 == <<"1", "8", ":", "0", "0">>
T2400 == <<"2", "4", ":", "0", "0">>
T900 == <<"9", ":", "0", "0">>
Slot(a, b) == [startTime |-> a, endTime |-> b]
NoDays == [d \in DayNames |-> Undef]
ScheduleBody(days, userId) == [days |-> days, userId |-> userId]
\* { Monday: { startTime: "10:00", endTime: "18:00" } }
BodyMonday == ScheduleBody([NoDays EXCEPT !["Monday"] = Slot(Str(T1000), Str(T1800))], 0)
\* { Monday: { startTime: "10:00" } }
BodyStartOnly == ScheduleBody([NoDays EXCEPT !["Monday"] = Slot(Str(T1000), Undef)], 0)
\* { Monday: { startTime: 0, endTime: "18:00" } }
BodyZero == ScheduleBody([NoDays EXCEPT !["Monday"] = Slot(Num(0), Str(T1800))], 0)
\* { Monday: { startTime: "", endTime: "18:00" } }
BodyEmptyString == ScheduleBody([NoDays EXCEPT !["Monday"] = Slot(Str(<<>>), Str(T1800))], 0)
\* { Sunday: { startTime: "09:00", endTime: "9:00" }, Monday: { startTime: "24:00", ... } }
BodyTwoInvalid ==
  ScheduleBody([NoDays EXCEPT !["Sunday"] = Slot(Str(T0900), Str(T900)),
                              !["Monday"] = Slot(Str(T2400), Str(T1800))], 0)
\* { Tuesday: { startTime: "24:00", endTime: "18:00" } }
BodyInvalidStart == ScheduleBody([NoDays EXCEPT !["Tuesday"] = Slot(Str(T2400), Str(T1800))], 0)
\* { userId: <the id of a stored user> }
OwnerBodies == {ScheduleBody(NoDays, u) : u \in 1..Len(users)}
ScheduleBodies ==
  {BodyMonday, BodyStartOnly, BodyZero, BodyEmptyString, BodyTwoInvalid, BodyInvalidStart}
    \cup OwnerBodies

TimeOffBody(type, startDate, endDate, description) ==
  [type |-> type, startDate |-> startDate, endDate |-> endDate, description |-> description]
Vacation == Str("vacation")
DayOff == Str("dayOff")
Trip == Str("trip")
TimeOffBodies ==
  {TimeOffBody(Vacation, Str(D0505), Str(D0510), Trip),
   TimeOffBody(Vacation, Str(D0505), Str(D0505), Undef),
   TimeOffBody(Vacation, Str(D0510), Str(D0505), Undef),
   TimeOffBody(Vacation, Str(D0505), Undef, Undef),
   TimeOffBody(Vacation, Str(D0230), Str(D0510), Undef),
   TimeOffBody(Vacation, Str(D0505), Str(D0230), Undef),
   TimeOffBody(Vacation, Str(Padded(D0505)), Str(D0505), Undef),
   TimeOffBody(Vacation, Undef, Str(D0510), Undef),
   TimeOffBody(DayOff, Str(D0505), Undef, Undef),
   TimeOffBody(DayOff, Str(D0510), Str(D0505), Trip),
   TimeOffBody(DayOff, Str(Padded(D0505)), Undef, Undef),
   TimeOffBody(DayOff, Str(D0505), Undef, Obj),
   TimeOffBody(Str("bogus"), Str(D0505), Str(D0510), Undef),
   TimeOffBody(Undef, Str(D0505), Str(D0510), Undef)}
\* a small body set for the specification whose properties are not about dates
FewTimeOffBodies ==
  {TimeOffBody(DayOff, Str(D0505), Undef, Undef),
   TimeOffBody(Vacation, Str(D0510), Str(D0505), Undef)}
\* the bodies of the updates of the specification about ownership
OwnerTimeOffBodies ==
  {TimeOffBody(DayOff, Str(D0510), Undef, Trip),
   TimeOffBody(Vacation, Str(D0505), Str(D0510), Undef)}
TimeOffIds == 1..MaxTimeOffs


(***************************************************************************)
(* Specifications.  Each one runs the handlers that write the collections  *)
(* its properties read, over the inputs those properties are about.        *)
(***************************************************************************)
MaxInflight == 2
Continue ==
  \/ \E i \in 1..Len(reqs), salt \in Salts : RegisterSaveUser(i, salt)
  \/ \E i \in 1..Len(reqs), ok \in BOOLEAN : RegisterSaveSchedule(i, ok)
  \/ \E i \in 1..Len(reqs) : GetScheduleSave(i)

\* the whole server: every route, every kind of Authorization header, time
Next ==
  \/ RegisterCheck(1, Alice, AliceMail, Pw1)
  \/ RegisterCheck(1, Bob, BobMail, Pw1)
  \/ Continue
  \/ \E u \in {Alice, Bob}, p \in {Pw1, Pw2} : Login(u, p)
  \/ \E h \in AllHeaders : GetScheduleRead(1, h)
  \/ \E h \in AllHeaders : UpdateSchedule(h, BodyMonday)
  \/ \E h \in AllHeaders : ListTimeOff(h)
  \/ \E h \in AllHeaders, b \in FewTimeOffBodies : CreateTimeOff(h, b)
  \/ \E h \in AllHeaders, id \in TimeOffIds, b \in FewTimeOffBodies : UpdateTimeOff(h, id, b)
  \/ \E h \in AllHeaders, id \in TimeOffIds : DeleteTimeOff(h, id)
  \/ Tick
Spec == Init /\ [][Next]_vars

\* registration and login, with registrations running concurrently
AuthNext ==
  \/ \E u \in {Alice, Bob, Undef}, e \in {AliceMail, BobMail}, p \in {Pw1, PwNumber} :
       RegisterCheck(MaxInflight, u, e, p)
  \/ \E i \in 1..Len(reqs), salt \in Salts : RegisterSaveUser(i, salt)
  \/ \E i \in 1..Len(reqs), ok \in BOOLEAN : RegisterSaveSchedule(i, ok)
  \/ \E u \in {Alice, Bob, Undef}, p \in {Pw1, Pw2, PwNumber, Undef} : Login(u, p)
SpecAuth == Init /\ [][AuthNext]_vars

\* the time-off routes, for two registered users
TimeOffNext ==
  \/ RegisterCheck(1, Alice, AliceMail, Pw1)
  \/ RegisterCheck(1, Bob, BobMail, Pw1)
  \/ \E i \in 1..Len(reqs), salt \in Salts : RegisterSaveUser(i, salt)
  \/ \E i \in 1..Len(reqs) : RegisterSaveSchedule(i, TRUE)
  \/ \E h \in HeldHeaders : ListTimeOff(h)
  \/ \E h \in HeldHeaders, b \in TimeOffBodies : CreateTimeOff(h, b)
  \/ \E h \in HeldHeaders, id \in TimeOffIds, b \in TimeOffBodies : UpdateTimeOff(h, id, b)
  \/ \E h \in HeldHeaders, id \in TimeOffIds : DeleteTimeOff(h, id)
SpecTimeOff == InitAnyDeployment /\ [][TimeOffNext]_vars

\* the schedule routes, with the get-schedule requests running concurrently;
\* a registration or a login is taken up when no request is suspended
ScheduleNext ==
  \/ reqs = <<>> /\ RegisterCheck(1, Alice, AliceMail, Pw1)
  \/ reqs = <<>> /\ RegisterCheck(1, Bob, BobMail, Pw1)
  \/ Continue
  \/ reqs = <<>> /\ Login(Alice, Pw1)
  \/ reqs = <<>> /\ Login(Bob, Pw1)
  \/ \E h \in HeldHeaders : GetScheduleRead(MaxInflight, h)
  \/ \E h \in HeldHeaders, b \in {BodyMonday} \cup OwnerBodies : UpdateSchedule(h, b)
SpecSchedule == Init /\ [][ScheduleNext]_vars

\* the schedule routes, one request at a time: a request is taken up only
\* when none is suspended
SeqNext ==
  \/ reqs = <<>> /\ RegisterCheck(1, Alice, AliceMail, Pw1)
  \/ reqs = <<>> /\ RegisterCheck(1, Bob, BobMail, Pw1)
  \/ Continue
  \/ reqs = <<>> /\ \E u \in {Alice, Bob}, p \in {Pw1, Pw2} : Login(u, p)
  \/ reqs = <<>> /\ \E h \in HeldHeaders : GetScheduleRead(1, h)
  \/ reqs = <<>> /\ \E h \in HeldHeaders, b \in ScheduleBodies : UpdateSchedule(h, b)
SpecSeq == Init /\ [][SeqNext]_vars

\* the routes that update a record, for two registered users
OwnerNext ==
  \/ reqs = <<>> /\ RegisterCheck(1, Alice, AliceMail, Pw1)
  \/ reqs = <<>> /\ RegisterCheck(1, Bob, BobMail, Pw1)
  \/ \E i \in 1..Len(reqs), salt \in Salts : RegisterSaveUser(i, salt)
  \/ \E i \in 1..Len(reqs) : RegisterSaveSchedule(i, TRUE)
  \/ \E h \in HeldHeaders, b \in {BodyMonday} \cup OwnerBodies : UpdateSchedule(h, b)
  \/ \E h \in HeldHeaders, b \in FewTimeOffBodies : CreateTimeOff(h, b)
  \/ \E h \in HeldHeaders, id \in TimeOffIds, b \in OwnerTimeOffBodies : UpdateTimeOff(h, id, b)
SpecOwner == Init /\ [][OwnerNext]_vars

(***************************************************************************)
(* Properties                                                              *)
(***************************************************************************)
RegisterNames == {Alice, Bob}
RegisterMails == {AliceMail, BobMail}
RegisterPasswords == {Pw1, PwNumber}

\* C2: no two stored users share a username or an email, under any
\* interleaving of the steps of concurrent registrations; and a registration
\* whose existence read finds a user with the same username or the same
\* email is answered 400 and leaves no request behind that could write a
\* user or a schedule
UniqueUsersAndConflict ==
  /\ \A i, j \in 1..Len(users) :
       i # j => /\ users[i].username # users[j].username
                /\ users[i].email # users[j].email
  /\ \A u \in RegisterNames, e \in RegisterMails, p \in RegisterPasswords :
       (\E i \in 1..Len(users) : users[i].username = u.v \/ users[i].email = e.v)
         => /\ registerCheck(u, e, p).resp.status = 400
            /\ registerCheck(u, e, p).resp.message = "User already exists"
            /\ registerCheck(u, e, p).reqs = reqs
\* two registrations of one username raced: both passed the existence read,
\* one has stored its user, the other is about to write
RegisterRaceLost ==
  \E i \in 1..Len(reqs) :
    /\ reqs[i].op = "register"
    /\ reqs[i].pc = "saveUser"
    /\ ~bcryptThrows(reqs[i].password)
    /\ \E k \in 1..Len(users) : users[k].username = reqs[i].username.v

LoginNames == {Alice, Bob}
LoginPasswords == {Pw1, Pw2, PwNumber}
Stored(u) == \E i \in 1..Len(users) : users[i].username = u.v
StoredId(u) == CHOOSE i \in 1..Len(users) : users[i].username = u.v
GivenAtRegistration(p, u) == p.k = "string" /\ p.v = users[StoredId(u)].password.of
\* C7: a login for a username that is not stored and a login for a stored
\* username with a wrong password are both answered 400 "Invalid
\* credentials" and issue no token; a login with the password given at
\* registration is answered 200 with a token for that user
LoginDoesNotRevealUsers ==
  \A u \in LoginNames, p \in LoginPasswords :
    LET out == login(u, p) IN
    /\ ~Stored(u) =>
         /\ out.resp.status = 400
         /\ out.resp.message = "Invalid credentials"
         /\ out.tokens = tokens
    /\ (Stored(u) /\ ~GivenAtRegistration(p, u)) =>
         /\ out.resp.status = 400
         /\ out.resp.message = "Invalid credentials"
         /\ out.tokens = tokens
    /\ (Stored(u) /\ GivenAtRegistration(p, u)) =>
         /\ out.resp.status = 200
         /\ out.resp.body = jwtSign(StoredId(u), JWT_SECRET, now)
\* the part of C7 the code keeps: the same, for passwords that are strings
LoginStringPasswords ==
  \A u \in LoginNames, p \in {Pw1, Pw2} :
    LET out == login(u, p) IN
    /\ (~Stored(u) \/ ~GivenAtRegistration(p, u)) =>
         /\ out.resp.status = 400
         /\ out.resp.message = "Invalid credentials"
         /\ out.tokens = tokens
    /\ (Stored(u) /\ GivenAtRegistration(p, u)) => out.resp.status = 200

\* the requests a user other than the owner of a stored time-off record can
\* send naming that record's id: the positions i of the records and the held
\* tokens h of the other users
Foreign(i, h) ==
  /\ authenticate(h) # 0
  /\ authenticate(h) # timeoffs[i].userId
\* C1, as stated: an update or delete by a caller other than the owner,
\* naming the record's id, is answered 404, whatever the body, and the record
\* stays stored as it was
ForeignRequestsAnswered404 ==
  \A i \in 1..Len(timeoffs), h \in HeldHeaders :
    Foreign(i, h) =>
      /\ deleteTimeOff(h, timeoffs[i].id).resp.status = 404
      /\ deleteTimeOff(h, timeoffs[i].id).timeoffs = timeoffs
      /\ \A b \in TimeOffBodies :
           /\ updateTimeOff(h, timeoffs[i].id, b).resp.status = 404
           /\ updateTimeOff(h, timeoffs[i].id, b).timeoffs = timeoffs
\* C1, amended: the delete is answered 404; the update is answered 400 when
\* its body fails the handler's validation, 500 when the body passes it but
\* the schema refuses the type or the description, and 404 otherwise; in
\* every case the record stays stored with the same type, dates,
\* description, status and owner
ForeignRequestsLeaveRecord ==
  \A i \in 1..Len(timeoffs), h \in HeldHeaders :
    Foreign(i, h) =>
      /\ deleteTimeOff(h, timeoffs[i].id).resp.status = 404
      /\ deleteTimeOff(h, timeoffs[i].id).timeoffs = timeoffs
      /\ \A b \in TimeOffBodies :
           LET out == updateTimeOff(h, timeoffs[i].id, b) IN
           /\ out.resp.status =
                IF timeOffError(b) # "" THEN 400
                ELSE IF enumRejects(b.type) \/ b.description.k = "object" THEN 500
                ELSE 404
           /\ out.timeoffs = timeoffs
\* a record of user 1 is stored and user 2 holds a token: user 2's delete and
\* user 2's well-formed update of it are answered 404, user 2's update with a
\* 30th of February 400
ForeignRequestSeen ==
  \E i \in 1..Len(timeoffs), h \in HeldHeaders :
    /\ Foreign(i, h)
    /\ deleteTimeOff(h, timeoffs[i].id).resp.status = 404
    /\ updateTimeOff(h, timeoffs[i].id,
                     TimeOffBody(Vacation, Str(D0505), Str(D0510), Trip)).resp.status = 404
    /\ updateTimeOff(h, timeoffs[i].id,
                     TimeOffBody(Vacation, Str(D0230), Str(D0510), Undef)).resp.status = 400

\* a string that is exactly YYYY-MM-DD and names a day of the calendar
IsCalendarDate(x) ==
  /\ x.k = "string"
  /\ dateRegex(x.v)
  /\ LET year == DigitsValue(SubSeq(x.v, 1, 4), 0)
         month == DigitsValue(SubSeq(x.v, 6, 7), 0)
         day == DigitsValue(SubSeq(x.v, 9, 10), 0)
     IN /\ month \in 1..12
        /\ day \in 1..DaysInMonth(year, month)
\* the day number of a calendar date
DayNumber(x) ==
  MakeDay(DigitsValue(SubSeq(x.v, 1, 4), 0), DigitsValue(SubSeq(x.v, 6, 7), 0) - 1,
          DigitsValue(SubSeq(x.v, 9, 10), 0))
\* C3: every stored time-off record has a startDate and an endDate that are
\* valid calendar dates, endDate equal to startDate when its type is
\* "dayOff", and endDate not earlier than startDate otherwise
StoredDatesValid ==
  \A i \in 1..Len(timeoffs) :
    /\ IsCalendarDate(timeoffs[i].startDate)
    /\ IsCalendarDate(timeoffs[i].endDate)
    /\ timeoffs[i].type = "dayOff" => timeoffs[i].endDate = timeoffs[i].startDate
    /\ timeoffs[i].type # "dayOff" =>
         DayNumber(timeoffs[i].endDate) >= DayNumber(timeoffs[i].startDate)

\* a value that is a string and, trimmed, a 24-hour HH:MM time
IsValidTime(x) == x.k = "string" /\ timeRegex(Trim(x.v))
\* C4: every weekday slot of every stored schedule has both a startTime and
\* an endTime, each a valid HH:MM time; an update in which a present day's
\* given time is invalid is answered 400 naming the first invalid day and
\* field and changes nothing; an update for a user with no schedule is
\* answered 404 and creates nothing
StoredSlotsValid ==
  /\ \A i \in 1..Len(schedules), d \in DayNames :
       /\ IsValidTime(schedules[i].days[d].startTime)
       /\ IsValidTime(schedules[i].days[d].endTime)
  /\ \A h \in HeldHeaders :
       authenticate(h) # 0 =>
         /\ updateSchedule(h, BodyTwoInvalid).resp.status = 400
         /\ updateSchedule(h, BodyTwoInvalid).resp.message
              = "Invalid end time format for Sunday"
         /\ updateSchedule(h, BodyTwoInvalid).schedules = schedules
         /\ updateSchedule(h, BodyInvalidStart).resp.status = 400
         /\ updateSchedule(h, BodyInvalidStart).resp.message
              = "Invalid start time format for Tuesday"
         /\ updateSchedule(h, BodyInvalidStart).schedules = schedules
         /\ (\A i \in 1..Len(schedules) : schedules[i].userId # authenticate(h)) =>
              /\ updateSchedule(h, BodyMonday).resp.status = 404
              /\ updateSchedule(h, BodyMonday).schedules = schedules

\* the positions of the schedules a user owns
OwnedBy(u) == {i \in 1..Len(schedules) : schedules[i].userId = u}
NineToHalfPastFive ==
  [d \in {"Sunday", "Monday", "Tuesday", "Wednesday", "Thursday", "Friday", "Saturday"} |->
     [startTime |-> Str(<<"0", "9", ":", "0", "0">>),
      endTime |-> Str(<<"1", "7", ":", "3", "0">>)]]
\* a step that completes the suspended get-schedule request i
CompletesGet(i) ==
  /\ reqs[i].op = "getSchedule"
  /\ reqs' = RemoveAt(reqs, i)
\* the answer to a get-schedule of a caller who has a schedule: 200 with the
\* first schedule the caller owns, and nothing left to write
ReadsOnly(h) ==
  LET u == authenticate(h)
      first == CHOOSE i \in OwnedBy(u) : \A j \in OwnedBy(u) : i <= j
  IN /\ getScheduleRead(h).resp.status = 200
     /\ getScheduleRead(h).resp.body = [id |-> first, doc |-> schedules[first]]
     /\ getScheduleRead(h).reqs = reqs
\* C5: with requests run one at a time, a get-schedule of a user with no
\* schedule stores exactly one schedule for that user, all seven days 09:00
\* to 17:30, and returns it; a get-schedule of a user who has a schedule
\* writes nothing and returns the stored document, so that a later
\* get-schedule returns the identical document; a step that creates a
\* schedule leaves the document every other get-schedule returns as it was
LazyCreationIdempotent ==
  [][/\ \A i \in 1..Len(reqs) :
          CompletesGet(i) =>
            \A u \in {reqs[i].userId} :
              /\ OwnedBy(u) = {}
              /\ Len(schedules') = Len(schedules) + 1
              /\ SubSeq(schedules', 1, Len(schedules)) = schedules
              /\ OwnedBy(u)' = {Len(schedules')}
              /\ schedules'[Len(schedules')] = [userId |-> u, days |-> NineToHalfPastFive]
              /\ getScheduleSave(i).resp.status = 200
              /\ getScheduleSave(i).resp.body
                   = [id |-> Len(schedules'), doc |-> schedules'[Len(schedules')]]
              /\ \A h \in HeldHeaders' :
                   (authenticate(h) = u)' =>
                     /\ (getScheduleRead(h).resp.status)' = 200
                     /\ (getScheduleRead(h).resp.body)' = getScheduleSave(i).resp.body
                     /\ (getScheduleRead(h).reqs)' = reqs'
     /\ \A h \in HeldHeaders :
          (authenticate(h) # 0 /\ OwnedBy(authenticate(h)) # {}) => ReadsOnly(h)
     /\ Len(schedules') > Len(schedules) =>
          \A h \in HeldHeaders :
            (authenticate(h) # 0 /\ OwnedBy(authenticate(h)) # {}) =>
              (getScheduleRead(h).resp)' = getScheduleRead(h).resp
    ]_vars
\* user 2 registered with a schedule, user 1 did not get one at registration
\* and got the default from a get-schedule, which a read now returns
LazilyCreated ==
  /\ reqs = <<>>
  /\ Len(schedules) = 2
  /\ schedules[1].userId = 2
  /\ schedules[2] = [userId |-> 1, days |-> NineToHalfPastFive]
  /\ \E h \in HeldHeaders :
       /\ authenticate(h) = 1
       /\ getScheduleRead(h).resp.status = 200
       /\ getScheduleRead(h).resp.body = [id |-> 2, doc |-> schedules[2]]

\* a step that ends registration request i with its schedule write failed
ScheduleWriteFails(i) ==
  /\ reqs[i].op = "register"
  /\ reqs[i].pc = "saveSchedule"
  /\ reqs' = RemoveAt(reqs, i)
  /\ schedules' = schedules
\* C9: when the user write of a registration succeeds and its schedule write
\* fails, the request is answered 500 with no token, the user stays stored
\* with no schedule and can log in; a get-schedule of a user with no schedule
\* is suspended at the write, and the write stores and returns the default
\* 09:00-17:30 schedule
RegistrationNotAtomic ==
  [][/\ \A i \in 1..Len(reqs) :
          ScheduleWriteFails(i) =>
            \A u \in {reqs[i].userId} :
              /\ registerSaveSchedule(i, FALSE).resp.status = 500
              /\ registerSaveSchedule(i, FALSE).resp.body = Null
              /\ tokens' = tokens
              /\ users' = users
              /\ u \in 1..Len(users')
              /\ users'[u].username = reqs[i].username.v
              /\ OwnedBy(u)' = {}
              /\ (login(Str(users[u].username), Str(users[u].password.of)).resp.status)' = 200
              /\ (login(Str(users[u].username), Str(users[u].password.of)).resp.caller)' = u
     /\ \A h \in HeldHeaders :
          (authenticate(h) # 0 /\ OwnedBy(authenticate(h)) = {}) =>
            /\ getScheduleRead(h).resp.status = 0
            /\ getScheduleRead(h).reqs
                 = Append(reqs, Request("getSchedule", "save", Undef, Undef, Undef,
                                        authenticate(h)))
     /\ \A i \in 1..Len(reqs) :
          CompletesGet(i) =>
            \A u \in {reqs[i].userId} :
              /\ schedules' = Append(schedules, [userId |-> u, days |-> NineToHalfPastFive])
              /\ getScheduleSave(i).resp.status = 200
              /\ getScheduleSave(i).resp.body.doc = [userId |-> u, days |-> NineToHalfPastFive]
              /\ OwnedBy(u)' # {}
    ]_vars
\* user 1 is stored without a schedule (the schedule write of the
\* registration failed), has logged in, and the get-schedule is at its write
HealingUnderWay ==
  /\ Len(users) = 1
  /\ schedules = <<>>
  /\ \E t \in tokens : t.userId = 1
  /\ reqs = <<Request("getSchedule", "save", Undef, Undef, Undef, 1)>>

\* C8: the write of a suspended get-schedule request saves a default
\* schedule whether or not its user has got one since the read, so two
\* get-schedule requests of one user that both read before either writes
\* leave that user with two schedules
EachSuspendedGetSaves ==
  [][\A i \in 1..Len(reqs) :
       CompletesGet(i) =>
         \A u \in {reqs[i].userId} :
           /\ schedules' = Append(schedules, [userId |-> u, days |-> NineToHalfPastFive])
           /\ Cardinality(OwnedBy(u)') = Cardinality(OwnedBy(u)) + 1
    ]_vars
\* the only user stored owns two default schedules
TwoSchedulesOneUser ==
  /\ Len(users) = 1
  /\ Len(schedules) = 2
  /\ OwnedBy(1) = {1, 2}
  /\ schedules[1] = schedules[2]
  /\ reqs = <<>>

\* C10: no update-schedule and no update-timeoff request, whatever its body,
\* changes the owner of a record, and none modifies a record owned by a user
\* other than the caller
OwnerNeverChanges ==
  \A h \in HeldHeaders :
    /\ \A b \in {BodyMonday} \cup OwnerBodies :
         LET after == updateSchedule(h, b).schedules IN
         \A i \in 1..Len(schedules) :
           /\ after[i].userId = schedules[i].userId
           /\ after[i] # schedules[i] => schedules[i].userId = authenticate(h)
    /\ \A id \in TimeOffIds, b \in OwnerTimeOffBodies :
         LET after == updateTimeOff(h, id, b).timeoffs IN
         \A i \in 1..Len(timeoffs) :
           /\ after[i].userId = timeoffs[i].userId
           /\ after[i] # timeoffs[i] => timeoffs[i].userId = authenticate(h)

\* the headers the middleware is to refuse: none, an empty or malformed
\* token, a token signed with another key, a token at or past its expiry
Refused(h) ==
  \/ ~h.present
  \/ h.token.kind # "jwt"
  \/ h.token.key # "JWT_SECRET"
  \/ now >= h.token.exp
\* C6: a request to a protected route with a refused header is answered 401
\* before any store operation and changes nothing; with a token issued by
\* register or login for a user, presented before its expiry, the handler
\* acts as exactly that user.  Every held token was issued for a stored user
\* and expires 24 hours after it was issued.
ProtectedRoutesAuthenticate ==
  /\ \A t \in tokens :
       /\ t.userId \in 1..Len(users)
       /\ t.key = "JWT_SECRET"
       /\ t.exp <= now + 24
  /\ \A h \in AllHeaders :
       LET get == getScheduleRead(h)
           put == updateSchedule(h, BodyMonday)
           list == listTimeOff(h)
       IN IF Refused(h)
          THEN /\ get.resp.status = 401 /\ get.resp.dbOps = 0 /\ get.reqs = reqs
               /\ put.resp.status = 401 /\ put.resp.dbOps = 0 /\ put.schedules = schedules
               /\ list.resp.status = 401 /\ list.resp.dbOps = 0
               /\ \A b \in FewTimeOffBodies :
                    /\ createTimeOff(h, b).resp.status = 401
                    /\ createTimeOff(h, b).resp.dbOps = 0
                    /\ createTimeOff(h, b).timeoffs = timeoffs
               /\ \A id \in TimeOffIds, b \in FewTimeOffBodies :
                    /\ updateTimeOff(h, id, b).resp.status = 401
                    /\ updateTimeOff(h, id, b).resp.dbOps = 0
                    /\ updateTimeOff(h, id, b).timeoffs = timeoffs
               /\ \A id \in TimeOffIds :
                    /\ deleteTimeOff(h, id).resp.status = 401
                    /\ deleteTimeOff(h, id).resp.dbOps = 0
                    /\ deleteTimeOff(h, id).timeoffs = timeoffs
          ELSE /\ get.resp.status # 401
               /\ \/ get.resp.status = 200 /\ get.resp.caller = h.token.userId
                  \/ /\ get.resp.status = 0
                     /\ get.reqs[Len(get.reqs)].userId = h.token.userId
               /\ put.resp.status # 401 /\ put.resp.caller = h.token.userId
               /\ list.resp.status = 200 /\ list.resp.caller = h.token.userId
               /\ \A i \in 1..Len(list.resp.body) :
                    list.resp.body[i].userId = h.token.userId
               /\ \A b \in FewTimeOffBodies :
                    /\ createTimeOff(h, b).resp.status # 401
                    /\ createTimeOff(h, b).resp.caller = h.token.userId
                    /\ createTimeOff(h, b).resp.status = 201 =>
                         createTimeOff(h, b).resp.body.userId = h.token.userId
               /\ \A id \in TimeOffIds, b \in FewTimeOffBodies :
                    /\ updateTimeOff(h, id, b).resp.status # 401
                    /\ updateTimeOff(h, id, b).resp.caller = h.token.userId
               /\ \A id \in TimeOffIds :
                    /\ deleteTimeOff(h, id).resp.status # 401
                    /\ deleteTimeOff(h, id).resp.caller = h.token.userId
\* the clients hold a token that has expired and one that has not: a
\* get-schedule with the first is answered 401, with the second 200
ExpiredAndFreshTokens ==
  \E old \in tokens, fresh \in tokens :
    /\ now >= old.exp
    /\ now < fresh.exp
    /\ getScheduleRead(Bearer(old)).resp.status = 401
    /\ getScheduleRead(Bearer(old)).resp.dbOps = 0
    /\ getScheduleRead(Bearer(fresh)).resp.status = 200
    /\ getScheduleRead(Bearer(fresh)).resp.caller = fresh.userId

====
